---- MODULE Spec2Model ----
(***************************************************************************)
(* A model of the MCP time server (mcp_time_server.py) and of the Ollama   *)
(* client that orchestrates model turns and tool calls                     *)
(* (mcp_ollama_client.py).                                                 *)
(*                                                                         *)
(* Python dicts with fixed keys are TLA+ records, Python lists are         *)
(* sequences, and JSON payloads whose shape varies (tool arguments, tool   *)
(* outputs, tool definitions) are the tagged values built by JString,      *)
(* JObject and JArray.  None is the string NoneValue, which is no tool     *)
(* name and no id a model sends.                                           *)
(***************************************************************************)
EXTENDS Naturals, Sequences, FiniteSets, TLC

(***************************************************************************)
(* Bounds of the exploration.                                              *)
(***************************************************************************)
\* Tool calls explored in one conversation, over all of its turns.
MaxToolCalls == 2
\* Requests the registry's log holds in RegistrySpec.
MaxRequests == 2

\* Calls one client makes of the registry.
MaxExchanges == 3

(***************************************************************************)
(* JSON values and json.dumps.                                             *)
(***************************************************************************)
NoneValue == "<None>"

JString(s) == [type |-> "string", str |-> s, members |-> <<>>, items |-> <<>>]

\* ms is the sequence of <<key, value>> pairs, in insertion order.
JObject(ms) == [type |-> "object", str |-> "", members |-> ms, items |-> <<>>]

JArray(xs) == [type |-> "array", str |-> "", members |-> <<>>, items |-> xs]

\* json.dumps with its default separators (", " and ": ").  The strings of
\* this model hold no character that json.dumps escapes.
RECURSIVE JsonDumps(_)
RECURSIVE DumpsMembers(_)
RECURSIVE DumpsItems(_)
JsonDumps(v) ==
    CASE v.type = "string" -> "\"" \o v.str \o "\""
      [] v.type = "object" -> "{" \o DumpsMembers(v.members) \o "}"
      [] v.type = "array" -> "[" \o DumpsItems(v.items) \o "]"

DumpsMembers(ms) ==
    IF ms = <<>> THEN ""
    ELSE "\"" \o ms[1][1] \o "\": " \o JsonDumps(ms[1][2])
         \o (IF Len(ms) > 1 THEN ", " \o DumpsMembers(Tail(ms)) ELSE "")

DumpsItems(xs) ==
    IF xs = <<>> THEN ""
    ELSE JsonDumps(xs[1])
         \o (IF Len(xs) > 1 THEN ", " \o DumpsItems(Tail(xs)) ELSE "")

\* dict.get(key, default) on a dict modelled as a record.
DictGet(d, key, default) == IF key \in DOMAIN d THEN d[key] ELSE default

\* str() of a value an f-string formats: None prints as None.
PyStr(x) == IF x = NoneValue THEN "None" ELSE x

(***************************************************************************)
(* Configuration.                                                          *)
(***************************************************************************)
OLLAMA_MODEL == "llama3.2"

MCP_SERVER_URL == "http://localhost:8001"

(***************************************************************************)
(* Inputs of the environment.                                              *)
(***************************************************************************)
\* datetime.now(timezone.utc).isoformat() at two instants.
Clock == {"2025-06-01T12:00:00+00:00", "2025-06-01T12:00:01+00:00"}

\* Names a model or a client asks for: the published tool and one that no
\* registry of this repository publishes.
ToolNames == {"get_current_time", "delete_universe"}

EmptyArgs == JObject(<<>>)

ZoneArgs == JObject(<< <<"timezone", JString("UTC")>> >>)

TextArgs == JString("now")

\* What can happen to one HTTP request: the server answers, the reply has a
\* 4xx or a 5xx status, or no connection is made.
Network == {"ok", "not_found", "server_error", "connection_error"}

(***************************************************************************)
(* mcp_time_server.py                                                      *)
(***************************************************************************)
\* GET /mcp/v1/tools
get_tools_definition ==
    [tools |-> <<
        JObject(<<
            <<"name", JString("get_current_time")>>,
            <<"description", JString("Get the current time in UTC. Useful for answering questions about the current time or date.")>>,
            <<"parameters", JObject(<<
                <<"type", JString("object")>>,
                <<"properties", JObject(<<>>)>>,
                <<"required", JArray(<<>>)>> >>)>> >>) >>]

\* Variant: a request without tool_name is taken to ask for the one tool.
call_tool_default_name(tool_call, now) ==
    LET tool_name == DictGet(tool_call, "tool_name", "get_current_time")
        tool_args == DictGet(tool_call, "arguments", EmptyArgs)
    IN  IF tool_name = "get_current_time"
        THEN [tool_name |-> tool_name,
              output |-> JObject(<< <<"current_time_utc", JString(now \o "Z")>> >>)]
        ELSE [tool_name |-> tool_name,
              error |-> "Tool '" \o PyStr(tool_name)
                        \o "' not found or supported by this server."]

\* Variant: the handler knows the tool under another name than the one the
\* list publishes.
call_tool_renamed(tool_call, now) ==
    LET tool_name == DictGet(tool_call, "tool_name", NoneValue)
        tool_args == DictGet(tool_call, "arguments", EmptyArgs)
    IN  IF tool_name = "delete_universe"
        THEN [tool_name |-> tool_name,
              output |-> JObject(<< <<"current_time_utc", JString(now \o "Z")>> >>)]
        ELSE [tool_name |-> tool_name,
              error |-> "Tool '" \o PyStr(tool_name)
                        \o "' not found or supported by this server."]

\* POST /mcp/v1/call: tool_call is the request's JSON body, now the clock read.
call_tool(tool_call, now) ==
    LET tool_name == DictGet(tool_call, "tool_name", NoneValue)
        tool_args == DictGet(tool_call, "arguments", EmptyArgs)
    IN  IF tool_name = "get_current_time"
        THEN [tool_name |-> tool_name,
              output |-> JObject(<< <<"current_time_utc", JString(now \o "Z")>> >>)]
        ELSE [tool_name |-> tool_name,
              error |-> "Tool '" \o PyStr(tool_name)
                        \o "' not found or supported by this server."]

(***************************************************************************)
(* The HTTP exchange as requests sees it.                                  *)
(***************************************************************************)
\* str(e) of the exception raise_for_status() raises.
HTTPErrorText(status, reason, url) ==
    ToString(status)
    \o (IF status < 500 THEN " Client Error: " ELSE " Server Error: ")
    \o reason \o " for url: " \o url

\* str(e) of requests.exceptions.ConnectionError.
ConnectionErrorText(url) == "Connection refused: " \o url

HttpResponse(status, reason, body) ==
    [kind |-> "response", status |-> status, reason |-> reason, body |-> body]

HttpException ==
    [kind |-> "exception", status |-> 0, reason |-> "", body |-> [detail |-> ""]]

\* The reply requests.get/post sees for one request whose handler would answer
\* body.
Exchange(net, body) ==
    CASE net = "ok" -> HttpResponse(200, "OK", body)
      [] net = "not_found" ->
            HttpResponse(404, "Not Found", [detail |-> "Not Found"])
      [] net = "server_error" ->
            HttpResponse(500, "Internal Server Error",
                         [detail |-> "Internal Server Error"])
      [] net = "connection_error" -> HttpException

\* response.raise_for_status() raises for 4xx and 5xx.
RaisesForStatus(reply) == reply.status >= 400 /\ reply.status < 600

(***************************************************************************)
(* mcp_ollama_client.py: the two client functions.                         *)
(***************************************************************************)
\* Variant: on a failure the definitions of this repository's server are
\* returned as a built-in default.
get_mcp_tool_definitions_with_default(reply) ==
    IF reply.kind = "exception" THEN get_tools_definition.tools
    ELSE IF RaisesForStatus(reply) THEN get_tools_definition.tools
    ELSE DictGet(reply.body, "tools", <<>>)

\* reply is what requests.get returned or raised.
get_mcp_tool_definitions(reply) ==
    IF reply.kind = "exception" THEN <<>>
    ELSE IF RaisesForStatus(reply) THEN <<>>
    ELSE DictGet(reply.body, "tools", <<>>)

\* Variant: the except branch returns the error without the tool's name.
call_mcp_server_tool_drops_name(tool_name, arguments, net, now) ==
    LET payload == [tool_name |-> tool_name, arguments |-> arguments]
        url == MCP_SERVER_URL \o "/mcp/v1/call"
        reply == Exchange(net, call_tool(payload, now))
    IN  IF reply.kind = "exception"
        THEN [error |-> ConnectionErrorText(url)]
        ELSE IF RaisesForStatus(reply)
        THEN [error |-> HTTPErrorText(reply.status, reply.reason, url)]
        ELSE reply.body

call_mcp_server_tool(tool_name, arguments, net, now) ==
    LET payload == [tool_name |-> tool_name, arguments |-> arguments]
        url == MCP_SERVER_URL \o "/mcp/v1/call"
        reply == Exchange(net, call_tool(payload, now))
    IN  IF reply.kind = "exception"
        THEN [tool_name |-> tool_name, error |-> ConnectionErrorText(url)]
        ELSE IF RaisesForStatus(reply)
        THEN [tool_name |-> tool_name,
              error |-> HTTPErrorText(reply.status, reply.reason, url)]
        ELSE reply.body

(***************************************************************************)
(* State.                                                                  *)
(***************************************************************************)
VARIABLES
    pc,                          \* where chat_with_ollama_and_tools stands
    user_prompt,                 \* its argument
    messages,                    \* the conversation history
    mcp_tool_definitions,        \* the discovered definitions
    response,                    \* the last value ollama.chat returned
    tool_calls,                  \* the intents of the current turn
    next_call,                   \* index in tool_calls of the for loop
    tool_call_id,                \* the id of the intent being dispatched
    tool_output_from_mcp_server, \* the result of the last call_mcp_server_tool
    final_response_content,      \* the text the function prints at the end
    uuid_draws,                  \* uuid.uuid4() values drawn so far
    discovery_reply,             \* history: what requests.get returned or raised
    chat_log,                    \* history: one entry per ollama.chat call
    post_log,                    \* history: one entry per call_mcp_server_tool call
    served,                      \* history: the exchanges the registry served
    pending,                     \* the requests the registry has accepted and
                                 \* not answered yet
    exchanges,                   \* history: the calls one client made of the
                                 \* registry, and what they returned
    discover_calls               \* history: calls of get_mcp_tool_definitions
                                 \* by chat_with_ollama_and_tools

vars == <<pc, user_prompt, messages, mcp_tool_definitions, response, tool_calls,
          next_call, tool_call_id, tool_output_from_mcp_server,
          final_response_content, uuid_draws, discovery_reply, chat_log, post_log,
          served, pending, exchanges, discover_calls>>

orchestrator_vars == <<pc, user_prompt, messages, mcp_tool_definitions, response,
                       tool_calls, next_call, tool_call_id,
                       tool_output_from_mcp_server, final_response_content,
                       uuid_draws, discovery_reply, chat_log, post_log,
                       discover_calls>>

(***************************************************************************)
(* Inputs of one conversation.                                             *)
(***************************************************************************)
Prompts == {"What time is it right now?",
            "Tell me a short story about a brave knight."}

\* Bodies a registry answers GET /mcp/v1/tools with: this repository's server,
\* a registry that publishes nothing, and a body without a tools member.
DiscoveryBodies ==
    {get_tools_definition, [tools |-> <<>>], [detail |-> "no tools here"]}

DiscoveryReplies == {Exchange(net, body) : net \in Network, body \in DiscoveryBodies}

\* Ids a model gives its tool calls.
ModelIds == {"call_1"}

\* Arguments a model gives: ollama hands them over as a dict.
ModelArgs == {EmptyArgs, ZoneArgs}

\* A tool call of ollama's response, with and without an id.
IntentWithId(name, arguments, id) ==
    [function |-> [name |-> name, arguments |-> arguments], id |-> id]

IntentWithoutId(name, arguments) ==
    [function |-> [name |-> name, arguments |-> arguments]]

Intents ==
    {IntentWithId(n, a, i) : n \in ToolNames, a \in ModelArgs, i \in ModelIds}
    \cup {IntentWithoutId(n, a) : n \in ToolNames, a \in ModelArgs}

\* The non-empty lists of at most n intents.
IntentLists(n) == UNION {[1..k -> Intents] : k \in 1..n}

Texts == {"It is noon."}

\* What ollama.chat returns when the model answers in text: tool_calls is
\* absent or an empty list.
TextResponses ==
    {[message |-> [role |-> "assistant", content |-> t]] : t \in Texts}
    \cup {[message |-> [role |-> "assistant", content |-> t, tool_calls |-> <<>>]] :
            t \in Texts}

\* What ollama.chat returns when the model asks for tools.
ToolResponses(n) ==
    {[message |-> [role |-> "assistant", content |-> "", tool_calls |-> calls]] :
        calls \in IntentLists(n)}

NoResponse == [message |-> [role |-> "none", content |-> ""]]

NoOutput == [tool_name |-> NoneValue]

(***************************************************************************)
(* mcp_ollama_client.py: chat_with_ollama_and_tools.                       *)
(***************************************************************************)
system_message_content(definitions) ==
    "You are a helpful assistant.\n"
    \o "You have access to tools to help answer user questions.\n"
    \o "Specifically, you can use the 'get_current_time' tool to find out the current time in UTC.\n"
    \o "When a user asks a question about the current time or date,\n"
    \o "you MUST respond by calling the 'get_current_time' tool.\n"
    \o "Otherwise, answer normally.\n"
    \o "Here are the tool definitions: " \o JsonDumps(JArray(definitions)) \o "\n"

SystemMessage(definitions) ==
    [role |-> "system", content |-> system_message_content(definitions)]

UserMessage(prompt) == [role |-> "user", content |-> prompt]

ToolMessage(id, content) ==
    [role |-> "tool", tool_call_id |-> id, content |-> content]

\* Variant: the error text is appended as it is, not serialized.
ToolMessageFor_raw_error(id, output) ==
    IF "error" \in DOMAIN output
    THEN ToolMessage(id, output.error)
    ELSE ToolMessage(id, JsonDumps(output.output))

\* The message lines 111-124 append for one result of call_mcp_server_tool.
ToolMessageFor(id, output) ==
    IF "error" \in DOMAIN output
    THEN ToolMessage(id, JsonDumps(JObject(<< <<"error", JString(output.error)>> >>)))
    ELSE ToolMessage(id, JsonDumps(output.output))

\* response.get('message', {}).get('tool_calls'), None read as the empty list.
ToolCallsOf(resp) == DictGet(resp.message, "tool_calls", <<>>)

\* Variant: one uuid is drawn before the loop and used for every intent.
Uuid4_drawn_once(n) == "uuid4-" \o ToString(1)

\* tool_call.get('id', str(uuid.uuid4())): the default is drawn on every call.
Uuid4(n) == "uuid4-" \o ToString(n)

\* Variant: the id of the model is ignored and a fresh one is always used.
ToolCallIdOf_always_fresh(tool_call, fresh) == fresh

ToolCallIdOf(tool_call, fresh) == DictGet(tool_call, "id", fresh)

Init ==
    /\ pc = "discover"
    /\ user_prompt \in Prompts
    /\ messages = <<>>
    /\ mcp_tool_definitions = <<>>
    /\ response = NoResponse
    /\ tool_calls = <<>>
    /\ next_call = 0
    /\ tool_call_id = NoneValue
    /\ tool_output_from_mcp_server = NoOutput
    /\ final_response_content = NoneValue
    /\ uuid_draws = 0
    /\ discovery_reply = HttpException
    /\ chat_log = <<>>
    /\ post_log = <<>>
    /\ served = <<>>
    /\ pending = {}
    /\ exchanges = <<>>
    /\ discover_calls = 0

\* Variant: the test of line 55 is missing, and an empty list goes into the
\* tool loop.
Discover_without_fallback ==
    /\ pc = "discover"
    /\ discover_calls' = discover_calls + 1
    /\ \E reply \in DiscoveryReplies :
        LET definitions == get_mcp_tool_definitions(reply)
        IN  /\ discovery_reply' = reply
            /\ mcp_tool_definitions' = definitions
            /\ messages' = messages \o <<SystemMessage(definitions),
                                         UserMessage(user_prompt)>>
            /\ pc' = "model_turn"
    /\ UNCHANGED <<user_prompt, response, tool_calls, next_call, tool_call_id,
                   tool_output_from_mcp_server, final_response_content,
                   uuid_draws, chat_log, post_log, served, pending,
                   exchanges>>

\* Lines 50-58 and 63-78: discovery and the first messages.
Discover ==
    /\ pc = "discover"
    /\ discover_calls' = discover_calls + 1
    /\ \E reply \in DiscoveryReplies :
        LET definitions == get_mcp_tool_definitions(reply)
        IN  /\ discovery_reply' = reply
            /\ mcp_tool_definitions' = definitions
            /\ IF definitions = <<>>
               THEN /\ messages' = Append(messages, UserMessage(user_prompt))
                    /\ pc' = "degraded_chat"
               ELSE /\ messages' = messages \o <<SystemMessage(definitions),
                                                 UserMessage(user_prompt)>>
                    /\ pc' = "model_turn"
    /\ UNCHANGED <<user_prompt, response, tool_calls, next_call, tool_call_id,
                   tool_output_from_mcp_server, final_response_content,
                   uuid_draws, chat_log, post_log, served, pending,
                   exchanges>>

\* Lines 59-61: the chat without tools returns a response, and the function
\* prints its content (kept in final_response_content) and returns.
DegradedChatAnswers ==
    /\ pc = "degraded_chat"
    /\ \E resp \in TextResponses :
        /\ response' = resp
        /\ final_response_content' = resp.message.content
        /\ chat_log' = Append(chat_log, [messages |-> messages, tools |-> <<>>,
                                         with_tools |-> FALSE, outcome |-> "text",
                                         tool_calls |-> <<>>])
    /\ pc' = "done"
    /\ UNCHANGED <<user_prompt, discovery_reply, messages, mcp_tool_definitions, tool_calls,
                   next_call, tool_call_id, tool_output_from_mcp_server,
                   uuid_draws, post_log, served, pending,
                   exchanges, discover_calls>>

\* Line 59: ollama.chat raises, and nothing catches it.
DegradedChatRaises ==
    /\ pc = "degraded_chat"
    /\ chat_log' = Append(chat_log, [messages |-> messages, tools |-> <<>>,
                                     with_tools |-> FALSE, outcome |-> "raised",
                                     tool_calls |-> <<>>])
    /\ pc' = "aborted"
    /\ UNCHANGED <<user_prompt, discovery_reply, messages, mcp_tool_definitions, response,
                   tool_calls, next_call, tool_call_id,
                   tool_output_from_mcp_server, final_response_content,
                   uuid_draws, post_log, served, pending,
                   exchanges, discover_calls>>

\* Variant: the model's answer is appended to the history before the loop
\* breaks.
ModelAnswers_appends_answer ==
    /\ pc = "model_turn"
    /\ Len(post_log) < MaxToolCalls
    /\ \E resp \in TextResponses :
        /\ response' = resp
        /\ tool_calls' = ToolCallsOf(resp)
        /\ final_response_content' = resp.message.content
        /\ messages' = Append(messages, [role |-> "assistant",
                                         content |-> resp.message.content])
        /\ chat_log' = Append(chat_log, [messages |-> messages,
                                         tools |-> mcp_tool_definitions,
                                         with_tools |-> TRUE, outcome |-> "text",
                                         tool_calls |-> <<>>])
    /\ pc' = "done"
    /\ UNCHANGED <<user_prompt, discovery_reply, mcp_tool_definitions, next_call,
                   tool_call_id, tool_output_from_mcp_server, uuid_draws,
                   post_log, served, pending,
                   exchanges, discover_calls>>

\* Lines 87-92 and 132-136: the model answers in text, and the loop breaks.
\* (The exploration follows a conversation up to MaxToolCalls tool calls: the
\* three model-turn actions are not explored past them.)
ModelAnswers ==
    /\ pc = "model_turn"
    /\ Len(post_log) < MaxToolCalls
    /\ \E resp \in TextResponses :
        /\ response' = resp
        /\ tool_calls' = ToolCallsOf(resp)
        /\ final_response_content' = resp.message.content
        /\ chat_log' = Append(chat_log, [messages |-> messages,
                                         tools |-> mcp_tool_definitions,
                                         with_tools |-> TRUE, outcome |-> "text",
                                         tool_calls |-> <<>>])
    /\ pc' = "done"
    /\ UNCHANGED <<user_prompt, discovery_reply, messages, mcp_tool_definitions, next_call,
                   tool_call_id, tool_output_from_mcp_server, uuid_draws,
                   post_log, served, pending,
                   exchanges, discover_calls>>

\* Variant: the message of the model that asks for tools is appended to the
\* history.
ModelRequestsTools_appends_request ==
    /\ pc = "model_turn"
    /\ Len(post_log) < MaxToolCalls
    /\ \E resp \in ToolResponses(MaxToolCalls - Len(post_log)) :
        /\ response' = resp
        /\ tool_calls' = ToolCallsOf(resp)
        /\ messages' = Append(messages, resp.message)
        /\ chat_log' = Append(chat_log, [messages |-> messages,
                                         tools |-> mcp_tool_definitions,
                                         with_tools |-> TRUE, outcome |-> "tools",
                                         tool_calls |-> ToolCallsOf(resp)])
    /\ next_call' = 1
    /\ pc' = "call_tool"
    /\ UNCHANGED <<user_prompt, discovery_reply, mcp_tool_definitions, tool_call_id,
                   tool_output_from_mcp_server, final_response_content,
                   uuid_draws, post_log, served, pending,
                   exchanges, discover_calls>>

\* Lines 87-97: the model asks for tools, and the for loop starts.
ModelRequestsTools ==
    /\ pc = "model_turn"
    /\ Len(post_log) < MaxToolCalls
    /\ \E resp \in ToolResponses(MaxToolCalls - Len(post_log)) :
        /\ response' = resp
        /\ tool_calls' = ToolCallsOf(resp)
        /\ chat_log' = Append(chat_log, [messages |-> messages,
                                         tools |-> mcp_tool_definitions,
                                         with_tools |-> TRUE, outcome |-> "tools",
                                         tool_calls |-> ToolCallsOf(resp)])
    /\ next_call' = 1
    /\ pc' = "call_tool"
    /\ UNCHANGED <<user_prompt, discovery_reply, messages, mcp_tool_definitions, tool_call_id,
                   tool_output_from_mcp_server, final_response_content,
                   uuid_draws, post_log, served, pending,
                   exchanges, discover_calls>>

\* Variant: the exception of ollama.chat is caught and the function returns
\* as if the model had answered with an empty text.
ModelRaises_swallowed ==
    /\ pc = "model_turn"
    /\ Len(post_log) < MaxToolCalls
    /\ chat_log' = Append(chat_log, [messages |-> messages,
                                     tools |-> mcp_tool_definitions,
                                     with_tools |-> TRUE, outcome |-> "raised",
                                     tool_calls |-> <<>>])
    /\ final_response_content' = ""
    /\ pc' = "done"
    /\ UNCHANGED <<user_prompt, discovery_reply, messages, mcp_tool_definitions,
                   response, tool_calls, next_call, tool_call_id,
                   tool_output_from_mcp_server, uuid_draws, post_log, served, pending,
                   exchanges, discover_calls>>

\* Line 87: ollama.chat raises, and nothing catches it.
ModelRaises ==
    /\ pc = "model_turn"
    /\ Len(post_log) < MaxToolCalls
    /\ chat_log' = Append(chat_log, [messages |-> messages,
                                     tools |-> mcp_tool_definitions,
                                     with_tools |-> TRUE, outcome |-> "raised",
                                     tool_calls |-> <<>>])
    /\ pc' = "aborted"
    /\ UNCHANGED <<user_prompt, discovery_reply, messages, mcp_tool_definitions, response,
                   tool_calls, next_call, tool_call_id,
                   tool_output_from_mcp_server, final_response_content,
                   uuid_draws, post_log, served, pending,
                   exchanges, discover_calls>>

\* Variant: the for loop runs over the intents from the last to the first.
CallTool_reversed ==
    /\ pc = "call_tool"
    /\ LET index == Len(tool_calls) - next_call + 1
           tool_call == tool_calls[index]
           tool_name == tool_call.function.name
           tool_arguments == tool_call.function.arguments
       IN  /\ tool_call_id' = ToolCallIdOf(tool_call, Uuid4(uuid_draws + 1))
           /\ uuid_draws' = uuid_draws + 1
           /\ \E net \in Network, now \in Clock :
                /\ tool_output_from_mcp_server' =
                       call_mcp_server_tool(tool_name, tool_arguments, net, now)
                /\ post_log' = Append(post_log, [tool_name |-> tool_name,
                                                 arguments |-> tool_arguments,
                                                 net |-> net,
                                                 turn |-> Len(chat_log),
                                                 intent |-> index,
                                                 result |-> tool_output_from_mcp_server'])
    /\ pc' = "append_tool"
    /\ UNCHANGED <<user_prompt, discovery_reply, messages, mcp_tool_definitions, response,
                   tool_calls, next_call, final_response_content, chat_log,
                   served, pending,
                   exchanges, discover_calls>>

\* Lines 98-107: one iteration of the for loop, up to the return of
\* call_mcp_server_tool.
CallTool ==
    /\ pc = "call_tool"
    /\ LET tool_call == tool_calls[next_call]
           tool_name == tool_call.function.name
           tool_arguments == tool_call.function.arguments
       IN  /\ tool_call_id' = ToolCallIdOf(tool_call, Uuid4(uuid_draws + 1))
           /\ uuid_draws' = uuid_draws + 1
           /\ \E net \in Network, now \in Clock :
                /\ tool_output_from_mcp_server' =
                       call_mcp_server_tool(tool_name, tool_arguments, net, now)
                /\ post_log' = Append(post_log, [tool_name |-> tool_name,
                                                 arguments |-> tool_arguments,
                                                 net |-> net,
                                                 turn |-> Len(chat_log),
                                                 intent |-> next_call,
                                                 result |-> tool_output_from_mcp_server'])
    /\ pc' = "append_tool"
    /\ UNCHANGED <<user_prompt, discovery_reply, messages, mcp_tool_definitions, response,
                   tool_calls, next_call, final_response_content, chat_log,
                   served, pending,
                   exchanges, discover_calls>>

\* Variant: the while loop is left after the for loop (break for continue).
AppendToolMessage_breaks ==
    /\ pc = "append_tool"
    /\ messages' = Append(messages,
                          ToolMessageFor(tool_call_id, tool_output_from_mcp_server))
    /\ IF next_call < Len(tool_calls)
       THEN /\ next_call' = next_call + 1
            /\ pc' = "call_tool"
       ELSE /\ next_call' = next_call
            /\ pc' = "done"
    /\ UNCHANGED <<user_prompt, discovery_reply, mcp_tool_definitions, response,
                   tool_calls, tool_call_id, tool_output_from_mcp_server,
                   final_response_content, uuid_draws, chat_log, post_log,
                   served, pending,
                   exchanges, discover_calls>>

\* Variant: the history holds only the latest Tool message after the first
\* two messages.
AppendToolMessage_keeps_latest ==
    /\ pc = "append_tool"
    /\ messages' = Append(SubSeq(messages, 1, 2),
                          ToolMessageFor(tool_call_id, tool_output_from_mcp_server))
    /\ IF next_call < Len(tool_calls)
       THEN /\ next_call' = next_call + 1
            /\ pc' = "call_tool"
       ELSE /\ next_call' = next_call
            /\ pc' = "model_turn"
    /\ UNCHANGED <<user_prompt, discovery_reply, mcp_tool_definitions, response,
                   tool_calls, tool_call_id, tool_output_from_mcp_server,
                   final_response_content, uuid_draws, chat_log, post_log,
                   served, pending,
                   exchanges, discover_calls>>

\* Variant: after a tool call that failed, discovery is run again before the
\* next call of the model.
AppendToolMessage_rediscovers ==
    /\ pc = "append_tool"
    /\ messages' = Append(messages,
                          ToolMessageFor(tool_call_id, tool_output_from_mcp_server))
    /\ IF next_call < Len(tool_calls)
       THEN /\ next_call' = next_call + 1
            /\ pc' = "call_tool"
       ELSE /\ next_call' = next_call
            /\ pc' = "model_turn"
    /\ IF "error" \in DOMAIN tool_output_from_mcp_server
       THEN \E reply \in DiscoveryReplies :
                /\ discovery_reply' = reply
                /\ mcp_tool_definitions' = get_mcp_tool_definitions(reply)
                /\ discover_calls' = discover_calls + 1
       ELSE UNCHANGED <<discovery_reply, mcp_tool_definitions, discover_calls>>
    /\ UNCHANGED <<user_prompt, response, tool_calls,
                   tool_call_id, tool_output_from_mcp_server,
                   final_response_content, uuid_draws, chat_log, post_log,
                   served, pending, exchanges>>

\* Lines 111-130: the Tool message of that result, and the next iteration or
\* the next turn of the while loop.
AppendToolMessage ==
    /\ pc = "append_tool"
    /\ messages' = Append(messages,
                          ToolMessageFor(tool_call_id, tool_output_from_mcp_server))
    /\ IF next_call < Len(tool_calls)
       THEN /\ next_call' = next_call + 1
            /\ pc' = "call_tool"
       ELSE /\ next_call' = next_call
            /\ pc' = "model_turn"
    /\ UNCHANGED <<user_prompt, discovery_reply, mcp_tool_definitions, response, tool_calls,
                   tool_call_id, tool_output_from_mcp_server,
                   final_response_content, uuid_draws, chat_log, post_log,
                   served, pending,
                   exchanges, discover_calls>>

Next ==
    \/ Discover
    \/ DegradedChatAnswers
    \/ DegradedChatRaises
    \/ ModelAnswers
    \/ ModelRequestsTools
    \/ ModelRaises
    \/ CallTool
    \/ AppendToolMessage

Spec == Init /\ [][Next]_vars

\* The tool loop runs on: every step that can be taken is taken in the end
\* (each call of the model and of a tool returns).
FairSpec == Spec /\ WF_vars(Next)

(***************************************************************************)
(* The registry on its own: any client may send any JSON object.           *)
(***************************************************************************)
\* Values of "arguments" a client sends: objects, and a JSON string.
ClientArgs == {EmptyArgs, ZoneArgs, TextArgs}

\* Bodies of POST /mcp/v1/call: with and without tool_name and arguments, and
\* with a null tool_name.
RequestBodies ==
    {[tool_name |-> n, arguments |-> a] : n \in ToolNames \cup {NoneValue},
                                          a \in ClientArgs}
    \cup {[tool_name |-> n] : n \in ToolNames}
    \cup {[arguments |-> a] : a \in ClientArgs}

\* The requests the registry has accepted so far.
Arrived == Cardinality(pending) + Len(served)

\* What a client may send: a POST /mcp/v1/call with a body, or a
\* GET /mcp/v1/tools.
Requests ==
    {[endpoint |-> "/mcp/v1/call", request |-> body] : body \in RequestBodies}
    \cup {[endpoint |-> "/mcp/v1/tools", request |-> [method |-> "GET"]]}

\* Lines 13 and 34 of the server: the application accepts a request and routes
\* it; its handler has not run yet, and other requests may be accepted and
\* answered before it does.
Receive ==
    /\ Arrived < MaxRequests
    /\ \E r \in Requests :
        pending' = pending \cup {[arrival |-> Arrived + 1,
                                  endpoint |-> r.endpoint,
                                  request |-> r.request]}
    /\ UNCHANGED <<served, exchanges>>
    /\ UNCHANGED orchestrator_vars

\* The request accepted last.
LatestAccepted ==
    CHOOSE p \in pending :
        \A q \in pending : q.arrival <= p.arrival

\* Variant: the body of the request accepted last is kept in a module-level
\* name, and the handler answers from it.
ServeCall_shared_body ==
    /\ \E p \in pending, now \in Clock :
        /\ p.endpoint = "/mcp/v1/call"
        /\ pending' = pending \ {p}
        /\ served' = Append(served,
                            [endpoint |-> p.endpoint,
                             arrival |-> p.arrival,
                             request |-> p.request,
                             response |->
                                 IF LatestAccepted.endpoint = "/mcp/v1/call"
                                 THEN call_tool(LatestAccepted.request, now)
                                 ELSE call_tool(p.request, now)])
    /\ UNCHANGED exchanges
    /\ UNCHANGED orchestrator_vars

\* Lines 13-32 of the server: the handler of one accepted request to
\* /mcp/v1/call runs and answers.
ServeCall ==
    /\ \E p \in pending, now \in Clock :
        /\ p.endpoint = "/mcp/v1/call"
        /\ pending' = pending \ {p}
        /\ served' = Append(served, [endpoint |-> p.endpoint,
                                     arrival |-> p.arrival,
                                     request |-> p.request,
                                     response |-> call_tool(p.request, now)])
    /\ UNCHANGED exchanges
    /\ UNCHANGED orchestrator_vars

\* Lines 34-53 of the server: the handler of one accepted request to
\* /mcp/v1/tools runs and answers.
ServeTools ==
    /\ \E p \in pending :
        /\ p.endpoint = "/mcp/v1/tools"
        /\ pending' = pending \ {p}
        /\ served' = Append(served, [endpoint |-> p.endpoint,
                                     arrival |-> p.arrival,
                                     request |-> p.request,
                                     response |-> get_tools_definition])
    /\ UNCHANGED exchanges
    /\ UNCHANGED orchestrator_vars

RegistryNext ==
    \/ Receive
    \/ ServeCall
    \/ ServeTools

RegistrySpec == Init /\ [][RegistryNext]_vars

(***************************************************************************)
(* One client of the registry of this repository: it calls                 *)
(* get_mcp_tool_definitions and call_mcp_server_tool in any order.         *)
(***************************************************************************)
\* Variant: the registry drops a tool from its list once a call has named a
\* tool it does not know.
ClientDiscovers_after_unregister ==
    /\ Len(exchanges) < MaxExchanges
    /\ \E net \in Network :
        LET unknown_called ==
                \E k \in 1..Len(exchanges) :
                    /\ exchanges[k].op = "Invoke"
                    /\ exchanges[k].tool_name \notin {"get_current_time"}
            body == IF unknown_called THEN [tools |-> <<>>] ELSE get_tools_definition
        IN  exchanges' = Append(exchanges,
                [op |-> "Discover",
                 net |-> net,
                 result |-> get_mcp_tool_definitions(Exchange(net, body))])
    /\ UNCHANGED <<served, pending>>
    /\ UNCHANGED orchestrator_vars

\* Lines 13-25 of the client against lines 34-53 of the server: one call of
\* get_mcp_tool_definitions.
ClientDiscovers ==
    /\ Len(exchanges) < MaxExchanges
    /\ \E net \in Network :
        exchanges' = Append(exchanges,
            [op |-> "Discover",
             net |-> net,
             result |-> get_mcp_tool_definitions(Exchange(net, get_tools_definition))])
    /\ UNCHANGED <<served, pending>>
    /\ UNCHANGED orchestrator_vars

\* Lines 27-42 of the client against lines 13-32 of the server: one call of
\* call_mcp_server_tool.
ClientInvokes ==
    /\ Len(exchanges) < MaxExchanges
    /\ \E tool_name \in ToolNames, arguments \in ModelArgs, net \in Network,
          now \in Clock :
        exchanges' = Append(exchanges,
            [op |-> "Invoke",
             net |-> net,
             tool_name |-> tool_name,
             result |-> call_mcp_server_tool(tool_name, arguments, net, now)])
    /\ UNCHANGED <<served, pending>>
    /\ UNCHANGED orchestrator_vars

ClientNext ==
    \/ ClientDiscovers
    \/ ClientInvokes

ClientSpec == Init /\ [][ClientNext]_vars

(***************************************************************************)
(* Properties.                                                             *)
(***************************************************************************)
Last(s) == s[Len(s)]

\* The ids uuid.uuid4() has produced so far.
SynthesizedIds == {Uuid4(k) : k \in 1..uuid_draws}

\* id is the call_id of intent: the id the model gave, or a synthesized one
\* when the model gave none.
CarriesIdOf(id, intent) ==
    IF "id" \in DOMAIN intent THEN id = intent.id ELSE id \in SynthesizedIds

\* ms extends the messages handed to invocation j of the model by one Tool
\* message for each of the first n intents of that turn, in their order.
AnsweredUpTo(j, n, ms) ==
    LET base == Len(chat_log[j].messages)
    IN  /\ Len(ms) = base + n
        /\ SubSeq(ms, 1, base) = chat_log[j].messages
        /\ \A i \in 1..n :
            /\ ms[base + i].role = "tool"
            /\ CarriesIdOf(ms[base + i].tool_call_id, chat_log[j].tool_calls[i])

\* C1: a turn in which the model emits N >= 1 intents gets exactly N Tool
\* messages before the model is invoked again, the i-th one carrying the
\* call_id of the i-th intent; while the turn is dispatched, the intents
\* before the current one have their Tool message and the others none.
C1_OneToolMessagePerIntent ==
    \A j \in 1..Len(chat_log) :
        chat_log[j].outcome = "tools" =>
            LET n == Len(chat_log[j].tool_calls)
            IN  IF j < Len(chat_log)
                THEN AnsweredUpTo(j, n, chat_log[j + 1].messages)
                ELSE /\ n >= 1
                     /\ pc \in {"model_turn", "call_tool", "append_tool"}
                     /\ pc = "model_turn" => AnsweredUpTo(j, n, messages)
                     /\ pc \in {"call_tool", "append_tool"} =>
                            AnsweredUpTo(j, next_call - 1, messages)

\* A turn of two intents, the first with an id of the model and the second
\* without, is answered and the model is about to be invoked again.
C1_Witness ==
    /\ pc = "model_turn"
    /\ chat_log # <<>>
    /\ Len(tool_calls) = 2
    /\ "id" \in DOMAIN tool_calls[1]
    /\ "id" \notin DOMAIN tool_calls[2]
    /\ Len(messages) = Len(Last(chat_log).messages) + 2

\* C2: every Tool message of the conversation state, and of every state
\* handed to the model, comes after an Assistant message that holds the
\* intent it answers.
HasIntentBefore(ms, k) ==
    \E j \in 1..(k - 1) :
        /\ ms[j].role = "assistant"
        /\ "tool_calls" \in DOMAIN ms[j]
        /\ \E c \in 1..Len(ms[j].tool_calls) :
            CarriesIdOf(ms[k].tool_call_id, ms[j].tool_calls[c])

ToolMessagesFollowIntent(ms) ==
    \A k \in 1..Len(ms) : ms[k].role = "tool" => HasIntentBefore(ms, k)

C2_ToolAfterAssistant ==
    /\ ToolMessagesFollowIntent(messages)
    /\ \A j \in 1..Len(chat_log) : ToolMessagesFollowIntent(chat_log[j].messages)

\* The conversation is over: the function returned, hit a turn limit, or the
\* model call raised (a call that does not return is outside C3).  A run that
\* is never over shows in the explored part as a run that reaches its end with
\* pc = "model_turn": the while loop is then at line 87 again.
Terminated == pc \in {"done", "turn_limit_exceeded", "aborted"}

DiscoveryFailedOrEmpty ==
    /\ pc # "discover"
    /\ \/ discovery_reply.kind = "exception"
       \/ RaisesForStatus(discovery_reply)
       \/ DictGet(discovery_reply.body, "tools", <<>>) = <<>>

\* C4: when discovery fails or yields no tool, the model is invoked at most
\* once and without tool schemas, no tool is called, the conversation holds
\* the User message alone, and the conversation completes with the model's
\* text (it ends otherwise only if the model call itself raises).
C4_DegradedPath ==
    DiscoveryFailedOrEmpty =>
        /\ pc \in {"degraded_chat", "done", "aborted"}
        /\ mcp_tool_definitions = <<>>
        /\ Len(chat_log) <= 1
        /\ \A j \in 1..Len(chat_log) :
            /\ ~chat_log[j].with_tools
            /\ chat_log[j].tools = <<>>
            /\ chat_log[j].messages = <<UserMessage(user_prompt)>>
        /\ post_log = <<>>
        /\ messages = <<UserMessage(user_prompt)>>
        /\ pc = "degraded_chat" <=> chat_log = <<>>
        /\ pc = "done" <=> (Len(chat_log) = 1 /\ chat_log[1].outcome = "text")
        /\ pc = "done" => final_response_content = response.message.content
        /\ pc = "aborted" <=> (Len(chat_log) = 1 /\ chat_log[1].outcome = "raised")

\* Discovery failed with a connection error and the conversation completed.
C4_Witness ==
    /\ discovery_reply.kind = "exception"
    /\ pc = "done"
    /\ Len(chat_log) = 1

StartsWith(s, prefix) ==
    Len(s) >= Len(prefix) /\ SubSeq(s, 1, Len(prefix)) = prefix

\* C5: every call of call_mcp_server_tool returned a result that carries the
\* requested tool_name and exactly one of output and error; a connection
\* failure and an HTTP error status give the error with the failure's text,
\* and after a 2xx reply the result is the server's answer to the payload.
C5_CallResultInBand ==
    /\ \A k \in 1..Len(post_log) :
        LET p == post_log[k]
            r == p.result
        IN  /\ "tool_name" \in DOMAIN r
            /\ r.tool_name = p.tool_name
            /\ ("output" \in DOMAIN r) # ("error" \in DOMAIN r)
            /\ p.net = "connection_error" =>
                   ("error" \in DOMAIN r /\ StartsWith(r.error, "Connection refused"))
            /\ p.net = "not_found" =>
                   ("error" \in DOMAIN r /\ StartsWith(r.error, "404 Client Error"))
            /\ p.net = "server_error" =>
                   ("error" \in DOMAIN r /\ StartsWith(r.error, "500 Server Error"))
            /\ p.net = "ok" =>
                   \E now \in Clock :
                       r = call_tool([tool_name |-> p.tool_name,
                                      arguments |-> p.arguments], now)
    /\ post_log # <<>> => tool_output_from_mcp_server = Last(post_log).result

\* One call met a 4xx status, another one a connection failure, and
\* both results went on to the Tool message.
C5_Witness ==
    /\ Len(post_log) = 2
    /\ post_log[1].net = "not_found"
    /\ post_log[2].net = "connection_error"
    /\ pc = "model_turn"

\* The content is a JSON object whose first member is "error".
ErrorShaped(content) == StartsWith(content, "{\"error\": ")

\* Results whose Tool message is appended: all but the one just returned.
AppendedResults == Len(post_log) - (IF pc = "append_tool" THEN 1 ELSE 0)

\* C6: each result of call_mcp_server_tool gets one Tool message, for an Err
\* the serialized {"error": text} and for an Ok the serialized output, so that
\* a Tool message is error-shaped exactly when the result was an Err; an Err
\* does not end the conversation: the loop goes on with the next intent and
\* then with the model.
C6_ToolFailureNotFatal ==
    /\ post_log # <<>> => Len(messages) = 2 + AppendedResults
    /\ \A k \in 1..AppendedResults :
        LET r == post_log[k].result
            m == messages[2 + k]
        IN  /\ m.role = "tool"
            /\ "error" \in DOMAIN r =>
                   m.content = "{\"error\": \"" \o r.error \o "\"}"
            /\ "error" \notin DOMAIN r => m.content = JsonDumps(r.output)
            /\ ErrorShaped(m.content) <=> "error" \in DOMAIN r
    /\ post_log # <<>> =>
        LET p == Last(post_log)
        IN  CASE pc = "append_tool" -> next_call = p.intent
              [] pc = "call_tool" ->
                    IF p.turn = Len(chat_log) THEN next_call = p.intent + 1
                    ELSE next_call = 1
              [] pc = "model_turn" -> p.intent = Len(tool_calls)
              [] pc = "done" -> Last(chat_log).outcome = "text"
              [] pc = "aborted" -> Last(chat_log).outcome = "raised"
              [] OTHER -> FALSE

\* In one turn the first call failed (unknown tool), the second succeeded, and
\* both Tool messages are appended before the next model turn.
C6_Witness ==
    /\ pc = "model_turn"
    /\ Len(post_log) = 2
    /\ post_log[1].turn = post_log[2].turn
    /\ "error" \in DOMAIN post_log[1].result
    /\ post_log[1].net = "ok"
    /\ "output" \in DOMAIN post_log[2].result
    /\ Len(messages) = 4

\* The member of a JSON object under key.
JMember(obj, key) ==
    LET i == CHOOSE i \in 1..Len(obj.members) : obj.members[i][1] = key
    IN  obj.members[i][2]

JKeys(obj) == {obj.members[i][1] : i \in 1..Len(obj.members)}

Contains(s, sub) ==
    \E i \in 1..(Len(s) - Len(sub) + 1) : SubSeq(s, i, i + Len(sub) - 1) = sub

\* The definitions GET /mcp/v1/tools publishes, and their names.
Published == {get_tools_definition.tools[i] : i \in 1..Len(get_tools_definition.tools)}

PublishedNames == {JMember(d, "name").str : d \in Published}

\* The requests to /mcp/v1/call the registry has served.
ServedCalls == {k \in 1..Len(served) : served[k].endpoint = "/mcp/v1/call"}

RequestedName(k) == DictGet(served[k].request, "tool_name", NoneValue)

\* C7: a call that names no published tool, a missing or null tool_name
\* included, is answered (the handler returns) with an error that says the
\* tool was not found, without an output, and with the requested tool_name.
C7_UnknownToolIsErr ==
    \A k \in ServedCalls :
        RequestedName(k) \notin PublishedNames =>
            LET r == served[k].response
            IN  /\ "error" \in DOMAIN r
                /\ "output" \notin DOMAIN r
                /\ Contains(r.error, "not found")
                /\ Contains(r.error, "'" \o PyStr(RequestedName(k)) \o "'")
                /\ "tool_name" \in DOMAIN r
                /\ r.tool_name = RequestedName(k)

\* The registry answered a call without tool_name and a call for a tool it
\* does not publish.
C7_Witness ==
    /\ Len(served) = 2
    /\ served[1].endpoint = "/mcp/v1/call"
    /\ "tool_name" \notin DOMAIN served[1].request
    /\ "error" \in DOMAIN served[1].response
    /\ served[2].endpoint = "/mcp/v1/call"
    /\ RequestedName(2) = "delete_universe"
    /\ "error" \in DOMAIN served[2].response

\* The parameter schema the registry publishes for a tool name.
SchemaOf(name) ==
    JMember(CHOOSE d \in Published : JMember(d, "name").str = name, "parameters")

\* value conforms to schema: it has the schema's type, and as an object it has
\* every required member.
Conforms(value, schema) ==
    /\ value.type = JMember(schema, "type").str
    /\ \A i \in 1..Len(JMember(schema, "required").items) :
        JMember(schema, "required").items[i].str \in JKeys(value)

\* C8: a call to a published tool whose arguments do not conform to the
\* tool's parameter schema is answered with an error and not with an output.
C8_MalformedArgumentsAreErr ==
    \A k \in ServedCalls :
        LET req == served[k].request
            r == served[k].response
        IN  (/\ RequestedName(k) \in PublishedNames
             /\ "arguments" \in DOMAIN req
             /\ ~Conforms(req.arguments, SchemaOf(RequestedName(k))))
            => ("error" \in DOMAIN r /\ "output" \notin DOMAIN r)

\* A model invocation was logged in this step, and it raised.
ModelRaisedInStep ==
    /\ Len(chat_log') = Len(chat_log) + 1
    /\ Last(chat_log').outcome = "raised"

\* C9: a model invocation that raises aborts the conversation and leaves the
\* history as it was; only a model invocation that raises aborts it (no
\* discovery, tool or transport failure does); and once aborted nothing
\* happens: no model invocation, no tool call, no append.
C9_ModelErrorAborts ==
    [][ /\ pc # "aborted"
        /\ ModelRaisedInStep =>
               (pc' = "aborted" /\ messages' = messages /\ post_log' = post_log)
        /\ pc' = "aborted" => ModelRaisedInStep ]_vars

\* A tool call failed on the connection, the loop went on, and the next model
\* invocation raised.
C9_Witness ==
    /\ pc = "aborted"
    /\ Len(chat_log) = 2
    /\ Len(post_log) = 1
    /\ post_log[1].net = "connection_error"
    /\ Len(messages) = 3

\* A model invocation was logged in this step, and it returned a response
\* without tool calls.
ModelAnsweredInStep ==
    /\ Len(chat_log') = Len(chat_log) + 1
    /\ Last(chat_log').outcome # "raised"
    /\ ToolCallsOf(response') = <<>>

\* C10: a model turn that returns no tool calls (tool_calls absent or empty)
\* appends nothing, calls no tool, and ends the conversation with that
\* response's text as the final content; and no step is taken after DONE.
C10_TextAnswerEndsConversation ==
    [][ /\ pc # "done"
        /\ ModelAnsweredInStep =>
               /\ messages' = messages
               /\ post_log' = post_log
               /\ uuid_draws' = uuid_draws
               /\ pc' = "done"
               /\ final_response_content' = response'.message.content
        /\ pc' = "done" => ModelAnsweredInStep ]_vars

\* After a tool turn the model answered with an empty tool_calls list, and the
\* conversation is done with the answer's text.
C10_Witness ==
    /\ pc = "done"
    /\ post_log # <<>>
    /\ "tool_calls" \in DOMAIN response.message
    /\ response.message.tool_calls = <<>>
    /\ final_response_content = response.message.content
    /\ Len(messages) = 2 + Len(post_log)

\* The model invocations that came back with tool calls.
ToolTurns == {j \in 1..Len(chat_log) : chat_log[j].outcome = "tools"}

\* The Tool messages appended so far for the intents of turn j.
AppendedInTurn(j) ==
    LET base == Len(chat_log[j].messages)
        n == Len(chat_log[j].tool_calls)
    IN  IF Len(messages) - base < n THEN Len(messages) - base ELSE n

\* The call_id of the Tool message for intent i of turn j.
CallIdOf(j, i) == messages[Len(chat_log[j].messages) + i].tool_call_id

\* An id is synthesized exactly for the intents that have no id.
SynthesizedWhenAbsent ==
    \A j \in ToolTurns : \A i \in 1..AppendedInTurn(j) :
        CallIdOf(j, i) \in SynthesizedIds <=> "id" \notin DOMAIN chat_log[j].tool_calls[i]

\* C11 as stated: the call_ids of the Tool messages of one turn are pairwise
\* distinct, given by the model or synthesized, and an id is synthesized
\* exactly when the intent has none.
C11_CallIdsDistinct ==
    /\ \A j \in ToolTurns : \A i1, i2 \in 1..AppendedInTurn(j) :
        i1 # i2 => CallIdOf(j, i1) # CallIdOf(j, i2)
    /\ SynthesizedWhenAbsent

\* C11 as amended: two Tool messages of one turn have the same call_id only
\* when the model gave both intents that same id; synthesized ids differ from
\* each other and from the model's ids, and an id is synthesized exactly when
\* the intent has no id.
C11_CallIdsDistinctUnlessModelRepeats ==
    /\ \A j \in ToolTurns : \A i1, i2 \in 1..AppendedInTurn(j) :
        (i1 # i2 /\ CallIdOf(j, i1) = CallIdOf(j, i2)) =>
            LET c1 == chat_log[j].tool_calls[i1]
                c2 == chat_log[j].tool_calls[i2]
            IN  /\ "id" \in DOMAIN c1
                /\ "id" \in DOMAIN c2
                /\ c1.id = c2.id
    /\ SynthesizedWhenAbsent

\* Both intents of a turn came without an id, and their Tool messages carry
\* two different synthesized ids.
C11_Witness ==
    /\ pc = "model_turn"
    /\ Len(tool_calls) = 2
    /\ "id" \notin DOMAIN tool_calls[1]
    /\ "id" \notin DOMAIN tool_calls[2]
    /\ AppendedInTurn(Len(chat_log)) = 2
    /\ CallIdOf(Len(chat_log), 1) # CallIdOf(Len(chat_log), 2)

IsPrefix(s, t) == Len(s) <= Len(t) /\ SubSeq(t, 1, Len(s)) = s

\* C12: every step leaves the messages it found in place and at most appends
\* to them, and every history handed to the model is a prefix of the present
\* one.
C12_AppendOnly ==
    [][ /\ IsPrefix(messages, messages')
        /\ \A j \in 1..Len(chat_log') : IsPrefix(chat_log'[j].messages, messages') ]_vars

\* The history grew over two turns: system, user and two Tool messages, the
\* second turn's model invocation having seen the first three.
C12_Witness ==
    /\ Len(messages) = 4
    /\ Len(chat_log) = 2
    /\ Len(chat_log[1].messages) = 2
    /\ Len(chat_log[2].messages) = 3

\* The GET of discovery failed: requests.get raised, or the status is an error.
DiscoveryFailedInTransport ==
    /\ pc # "discover"
    /\ (discovery_reply.kind = "exception" \/ RaisesForStatus(discovery_reply))

\* What discovery returns for the 2xx replies whose body holds no tool.
FetchedEmptyResults ==
    {get_mcp_tool_definitions(r) :
        r \in {q \in DiscoveryReplies :
                /\ q.kind = "response"
                /\ ~RaisesForStatus(q)
                /\ DictGet(q.body, "tools", <<>>) = <<>>}}

\* Discovery returned to its caller: the function went on past line 53.
DiscoveryReturned ==
    /\ pc \in {"degraded_chat", "model_turn", "call_tool", "append_tool", "done",
               "aborted"}
    /\ pc = "aborted" => (chat_log # <<>> /\ Last(chat_log).outcome = "raised")

\* C13 as stated: after a transport failure discovery returns, and what it
\* returns is an error value, distinct from what it returns for a fetched
\* empty list.
C13_FailureIsExplicit ==
    DiscoveryFailedInTransport =>
        /\ DiscoveryReturned
        /\ mcp_tool_definitions \notin FetchedEmptyResults

\* C13 as amended: after a transport failure discovery returns, and what it
\* returns is the empty list, the very value it returns for a fetched empty
\* list; the caller takes the path without tools.
C13_FailureIsEmptyList ==
    DiscoveryFailedInTransport =>
        /\ DiscoveryReturned
        /\ mcp_tool_definitions = <<>>
        /\ mcp_tool_definitions \in FetchedEmptyResults
        /\ pc \in {"degraded_chat", "done", "aborted"}

\* The GET was answered with 404, and the function is about to chat without
\* tools.
C13_Witness ==
    /\ pc = "degraded_chat"
    /\ discovery_reply.kind = "response"
    /\ discovery_reply.status = 404
    /\ mcp_tool_definitions = <<>>

\* The exchanges the registry answered on /mcp/v1/tools.
ServedLists == {k \in 1..Len(served) : served[k].endpoint = "/mcp/v1/tools"}

\* C14: whatever the order in which concurrent requests are accepted and
\* answered, each call is answered with what call_tool gives for its own body
\* and some clock read, carries its own tool_name, and each list request is
\* answered with the one published list; nothing a request leaves behind is
\* read by another.
C14_StatelessRegistry ==
    /\ \A k \in ServedCalls :
        /\ served[k].response \in {call_tool(served[k].request, now) : now \in Clock}
        /\ served[k].response.tool_name = RequestedName(k)
    /\ \A k \in ServedLists : served[k].response = get_tools_definition
    /\ \A p \in pending : \A k \in 1..Len(served) : served[k].arrival # p.arrival
    /\ \A k1, k2 \in 1..Len(served) :
        k1 # k2 => served[k1].arrival # served[k2].arrival

\* Two calls for different tools were in the registry at the same time, and
\* the one accepted last was answered first.
C14_Witness ==
    /\ Len(served) = 2
    /\ served[1].arrival = 2
    /\ served[2].arrival = 1
    /\ served[1].endpoint = "/mcp/v1/call"
    /\ served[2].endpoint = "/mcp/v1/call"
    /\ RequestedName(1) = "delete_universe"
    /\ RequestedName(2) = "get_current_time"
    /\ "output" \in DOMAIN served[2].response

\* C19: a call is answered with an output exactly when the name it asks for is
\* the name of a published definition, whatever its arguments are or whether
\* it has any; every other call is answered with an error.
C19_DiscoveryAgreesWithInvoke ==
    /\ \A k \in ServedCalls :
        LET r == served[k].response
        IN  /\ ("output" \in DOMAIN r) <=> (RequestedName(k) \in PublishedNames)
            /\ ("error" \in DOMAIN r) <=> (RequestedName(k) \notin PublishedNames)
    /\ \A k \in ServedLists :
        {JMember(served[k].response.tools[i], "name").str :
            i \in 1..Len(served[k].response.tools)} = PublishedNames

\* The registry published its list, and answered a call of the published
\* tool, sent with a string as arguments, with an output.
C19_Witness ==
    /\ Len(served) = 2
    /\ served[1].endpoint = "/mcp/v1/tools"
    /\ served[2].endpoint = "/mcp/v1/call"
    /\ RequestedName(2) \in PublishedNames
    /\ "arguments" \in DOMAIN served[2].request
    /\ served[2].request.arguments = TextArgs
    /\ "output" \in DOMAIN served[2].response

\* The calls of get_mcp_tool_definitions the client made.
Discoveries == {k \in 1..Len(exchanges) : exchanges[k].op = "Discover"}

\* Those of them whose GET the registry answered.
AnsweredDiscoveries == {k \in Discoveries : exchanges[k].net = "ok"}

\* C15 as stated: all calls of discovery made of the same registry return the
\* same list, whatever calls of tools lie between them.
C15_DiscoverIdempotent ==
    \A k1, k2 \in Discoveries : exchanges[k1].result = exchanges[k2].result

\* C15 as amended: all calls of discovery the registry answered return the
\* same list, the one the registry publishes, whatever calls of tools lie
\* between them; a call whose GET failed returns the empty list.
C15_AnsweredDiscoverIdempotent ==
    /\ \A k1, k2 \in AnsweredDiscoveries :
        exchanges[k1].result = exchanges[k2].result
    /\ \A k \in AnsweredDiscoveries : exchanges[k].result = get_tools_definition.tools
    /\ \A k \in Discoveries \ AnsweredDiscoveries : exchanges[k].result = <<>>

\* Two answered discoveries with a call of an unknown tool between them.
C15_Witness ==
    /\ Len(exchanges) = 3
    /\ 1 \in AnsweredDiscoveries
    /\ exchanges[2].op = "Invoke"
    /\ exchanges[2].net = "ok"
    /\ exchanges[2].tool_name = "delete_universe"
    /\ 3 \in AnsweredDiscoveries

\* The messages of role "tool" in a history.
ToolMessagesOf(ms) == {k \in 1..Len(ms) : ms[k].role = "tool"}

\* The network calls made so far for the intents of turn j.
PostsInTurn(j) == {k \in 1..Len(post_log) : post_log[k].turn = j}

\* A network call of a tool was made in this step.
ToolCalledInStep == Len(post_log') = Len(post_log) + 1

\* The model was invoked in this step.
ModelInvokedInStep == Len(chat_log') = Len(chat_log) + 1

\* C16: a network call is made only when every earlier result has its Tool
\* message, and it is the call of the next intent in the order of emission;
\* at no time is more than one result without its Tool message; the model is
\* invoked only when every intent of every turn has been called and has its
\* Tool message.
C16_SequentialDispatch ==
    [][ /\ ToolCalledInStep =>
            LET p == Last(post_log')
            IN  /\ Cardinality(ToolMessagesOf(messages)) = Len(post_log)
                /\ p.turn = Len(chat_log)
                /\ p.intent = Cardinality(PostsInTurn(p.turn)) + 1
                /\ p.intent <= Len(chat_log[p.turn].tool_calls)
                /\ p.tool_name = chat_log[p.turn].tool_calls[p.intent].function.name
                /\ p.arguments = chat_log[p.turn].tool_calls[p.intent].function.arguments
        /\ Len(post_log') - Cardinality(ToolMessagesOf(messages')) \in {0, 1}
        /\ ModelInvokedInStep =>
            /\ Cardinality(ToolMessagesOf(messages)) = Len(post_log)
            /\ \A j \in ToolTurns :
                Cardinality(PostsInTurn(j)) = Len(chat_log[j].tool_calls) ]_vars

\* The second intent of a turn, for another tool than the first, has been
\* called after the Tool message of the first was appended.
C16_Witness ==
    /\ pc = "append_tool"
    /\ Len(tool_calls) = 2
    /\ tool_calls[1].function.name # tool_calls[2].function.name
    /\ next_call = 2
    /\ Len(post_log) = 2
    /\ post_log[2].intent = 2
    /\ Cardinality(ToolMessagesOf(messages)) = 1

\* The roles of the messages of a history, in order.
RolesOf(ms) == [k \in 1..Len(ms) |-> ms[k].role]

\* C17: once discovery is done, a conversation that found tools has a history
\* that is the System message of the catalogue, the User message of the
\* prompt, and then Tool messages only, as many as intents have been resolved
\* (called, and their result appended); a conversation that found none has
\* the User message of the prompt as its whole history.
C17_HistoryShape ==
    pc # "discover" =>
        IF mcp_tool_definitions = <<>>
        THEN /\ messages = <<UserMessage(user_prompt)>>
             /\ post_log = <<>>
        ELSE /\ Len(messages) >= 2
             /\ messages[1] = SystemMessage(mcp_tool_definitions)
             /\ messages[2] = UserMessage(user_prompt)
             /\ \A k \in 3..Len(messages) : messages[k].role = "tool"
             /\ Cardinality(ToolMessagesOf(messages)) = AppendedResults
             /\ Len(messages) = 2 + AppendedResults

\* Both intents of one turn are resolved, and the history is System, User,
\* Tool, Tool.
C17_Witness ==
    /\ pc = "model_turn"
    /\ Len(chat_log) = 1
    /\ Len(tool_calls) = 2
    /\ RolesOf(messages) = <<"system", "user", "tool", "tool">>

\* C18: get_mcp_tool_definitions is called once, before any call of the
\* model, and never again; what it returned is not changed by any later step,
\* and it is the list every call of the model with tools is given.
C18_DiscoveredOnce ==
    [][ /\ discover_calls' # discover_calls =>
            (discover_calls = 0 /\ discover_calls' = 1 /\ chat_log = <<>>)
        /\ ModelInvokedInStep => discover_calls = 1
        /\ pc # "discover" =>
            /\ mcp_tool_definitions' = mcp_tool_definitions
            /\ discovery_reply' = discovery_reply
        /\ pc' # "discover" =>
            mcp_tool_definitions' = get_mcp_tool_definitions(discovery_reply')
        /\ \A j \in 1..Len(chat_log') :
            chat_log'[j].with_tools => chat_log'[j].tools = mcp_tool_definitions' ]_vars

\* The model was called twice with tools, and the tool call between the two
\* calls failed.
C18_Witness ==
    /\ Len(chat_log) = 2
    /\ chat_log[1].with_tools
    /\ chat_log[2].with_tools
    /\ chat_log[1].tools = chat_log[2].tools
    /\ Len(post_log) = 1
    /\ "error" \in DOMAIN post_log[1].result
    /\ discover_calls = 1

====
